---- MODULE Spec2Model ----
(***************************************************************************)
(* A model of the reddit scraper: the scoped lifecycle of RedditScraper,   *)
(* the discovery loop get_posts with its worker pool, the per-post worker  *)
(* get_post, the comment expansion of CommentScraper, the retry decorator  *)
(* of utils, and download_media of MediaScraper and of RedditScraper.      *)
(*                                                                         *)
(* The page surface (the browser) is the environment: the feed is the      *)
(* sequence of identifiers of the shreddit-post nodes rendered so far, a   *)
(* scroll appends nodes or reports no growth, and every call into the      *)
(* browser may fail.  A surface may render the same identifier twice.      *)
(***************************************************************************)
EXTENDS Integers, Sequences, FiniteSets, TLC

\* Bounds of the model.
MaxFeed == 3        \* most post nodes the feed ever renders
MaxLimit == 2       \* largest post limit tried
MaxWorkers == 2     \* largest max_workers tried
MaxComments == 3    \* most shreddit-comment nodes a post page ever renders
MaxCommentLimit == 3 \* largest comment limit tried
MaxRetries == 4     \* largest number of retries tried
MaxImages == 2      \* most img.absolute nodes a gallery carousel shows

\* @retry(retries=3, retry_sleep_sec=5) on MediaScraper.fetch
FetchRetries == 3

\* Post identifiers. They are only compared for equality, so they are named in
\* the order in which the surface first renders them.
PostIds == 1..MaxFeed

VARIABLES
  \* RedditScraper and its caller
  pc,               \* position of the driving thread
  driver,           \* self.driver: "none", "open" or "closed"
  limit,            \* get_posts(limit): << >> is None, <<n>> is the integer n
  comment_limit,    \* get_posts(comment_limit)
  download_media_dir, \* get_posts(download_media_dir), as its truth value
  max_workers,      \* self.max_workers
  feed,             \* identifiers of the rendered shreddit-post nodes
  post_ids,         \* get_posts: post_ids
  scraped_posts,    \* get_posts: scraped_posts
  tasks,            \* the futures of the current executor.map call
  dispatched,       \* every identifier handed to the pool, in order
  ended,            \* how the discovery loop ended
  \* the comments of one post page
  comment_nodes,    \* the rendered shreddit-comment nodes, in document order
  tree_present,     \* whether the page has a shreddit-comment-tree
  total_comments,   \* the totalcomments attribute of the tree
  cs_pc,            \* position of the comment expansion
  cs_comment_limit, \* scrape_comments: comment_limit after the adjustment
  comment_ids,      \* CommentScraper.comment_ids
  all_comments,     \* scrape_comments: the keys of all_comments, in order
  current_comments, \* scrape_comments: current_comments
  cs_i,             \* index in current_comments of the loop's comment
  get_ret,          \* what CommentScraper.get returned
  recorded,         \* every thingid get has added to comment_ids, in order
  \* one call of a function decorated with utils.retry
  retries,          \* retry(retries=...)
  r_pc,             \* position of wrapper
  r_log,            \* the outcome of every invocation of func, in order
  r_sleeps,         \* how many times wrapper has called time.sleep
  r_out,            \* what wrapper returned or raised
  \* one call of download_media on an open post page
  m_impl,           \* whose download_media runs: MediaScraper's or RedditScraper's
  m_href,           \* what content["tag"]["content-href"] looks like
  m_carousel,       \* whether the page has a gallery-carousel
  m_images,         \* the img.absolute nodes of the carousel, in document order
  m_pc,             \* position of download_media
  media_urls,       \* download_media: media_urls
  m_k,              \* index in media_urls of the loop's asset
  media_paths,      \* download_media: media_paths
  dir_made,         \* whether download_media_dir/id has been created
  files,            \* the paths of the files written under download_media_dir/id
  m_result,         \* what download_media returned or raised
  m_log             \* what became of each asset the loop has handled, in order

postVars == <<pc, driver, limit, download_media_dir, max_workers,
              feed, post_ids, scraped_posts, tasks, dispatched, ended>>

commentVars == <<comment_nodes, tree_present, total_comments, cs_pc,
                 cs_comment_limit, comment_ids, all_comments, current_comments,
                 cs_i, get_ret, recorded>>

retryVars == <<retries, r_pc, r_log, r_sleeps, r_out>>

mediaVars == <<m_impl, m_href, m_carousel, m_images, m_pc, media_urls, m_k,
               media_paths, dir_made, files, m_result, m_log>>

vars == <<postVars, comment_limit, commentVars, retryVars, mediaVars>>

----------------------------------------------------------------------------
\* Values

LimitIsNone == limit = << >>
LimitVal == limit[1]

Limits == {<< >>} \cup {<<n>> : n \in (-1)..MaxLimit}

RECURSIVE SeqsUpTo(_, _)
SeqsUpTo(S, n) ==
  IF n = 0 THEN {<< >>}
  ELSE LET shorter == SeqsUpTo(S, n - 1)
       IN shorter \cup {Append(s, x) : s \in shorter, x \in S}

Range(s) == {s[i] : i \in 1..Len(s)}

NoDup(s) == \A i, j \in 1..Len(s) : i # j => s[i] # s[j]

Min(a, b) == IF a < b THEN a ELSE b

\* A feed whose identifiers are named in order of first appearance.
Canonical(s) ==
  \A i \in 1..Len(s) : \A v \in 1..(s[i] - 1) : \E j \in 1..(i - 1) : s[j] = v

\* What a worker hands back: the content dict (with the keys it holds), the
\* failure marker None, or an exception leaving get_post.
Pending == [kind |-> "pending", id |-> 0, keys |-> {}]
NoneResult == [kind |-> "None", id |-> 0, keys |-> {}]
Raised == [kind |-> "raised", id |-> 0, keys |-> {}]
Content(id, keys) == [kind |-> "content", id |-> id, keys |-> keys]

NewTask(id) ==
  [id |-> id, pc |-> "queued", keys |-> {}, driver |-> "unbound", result |-> Pending]

----------------------------------------------------------------------------
\* RedditScraper.validate_limit
\* A validation that accepts every limit.
validate_limit_accepting_all(l) == TRUE

validate_limit(l) == l = << >> \/ l[1] >= 0

\* RedditScraper.quit_web_driver: driver.quit() ends the session. (For Chrome,
\* quit() stops the driver service in a finally clause of its own, so the
\* session ends also when the quit command fails.)
quit_web_driver(d) == "closed"

----------------------------------------------------------------------------
\* RedditScraper.__enter__ / __exit__

\* __enter__: build_web_driver fails, so no session exists and the scope is
\* never entered.
EnterBuildFails ==
  /\ pc = "new"
  /\ pc' = "enter_raised"
  /\ UNCHANGED <<commentVars, retryVars, mediaVars, driver, limit, comment_limit, download_media_dir, max_workers,
                 feed, post_ids, scraped_posts, tasks, dispatched, ended>>

\* __enter__: the session is built, self.driver.get(self.url) raises; the
\* handlers log and re-raise, __exit__ is not run.
EnterGetFails ==
  /\ pc = "new"
  /\ driver' = "open"
  /\ pc' = "enter_raised"
  /\ UNCHANGED <<commentVars, retryVars, mediaVars, limit, comment_limit, download_media_dir, max_workers,
                 feed, post_ids, scraped_posts, tasks, dispatched, ended>>

EnterOk ==
  /\ pc = "new"
  /\ driver' = "open"
  /\ pc' = "body"
  /\ UNCHANGED <<commentVars, retryVars, mediaVars, limit, comment_limit, download_media_dir, max_workers,
                 feed, post_ids, scraped_posts, tasks, dispatched, ended>>

\* __exit__ with an exception of the body: logs and returns False.
ExitOnException ==
  /\ pc \in {"body", "returned"}
  /\ pc' = "exited"
  /\ UNCHANGED <<commentVars, retryVars, mediaVars, driver, limit, comment_limit, download_media_dir, max_workers,
                 feed, post_ids, scraped_posts, tasks, dispatched, ended>>

\* __exit__ without an exception: quits the driver.
ExitClean ==
  /\ pc = "returned"
  /\ driver' = quit_web_driver(driver)
  /\ pc' = "exited"
  /\ UNCHANGED <<commentVars, retryVars, mediaVars, limit, comment_limit, download_media_dir, max_workers,
                 feed, post_ids, scraped_posts, tasks, dispatched, ended>>

----------------------------------------------------------------------------
\* RedditScraper.get_posts (the driving thread)

\* The two validate_limit calls and the creation of post_ids, scraped_posts
\* and the executor.
GetPostsCall ==
  /\ pc = "body"
  /\ IF validate_limit(limit) /\ validate_limit(<<comment_limit>>)
       THEN pc' = "wait" /\ ended' = ended
       ELSE pc' = "returned" /\ ended' = "invalid"
  /\ UNCHANGED <<commentVars, retryVars, mediaVars, driver, limit, comment_limit, download_media_dir, max_workers,
                 feed, post_ids, scraped_posts, tasks, dispatched>>

\* The loop over post_elements[len(scraped_posts):]: r is
\* <<post_ids, posts_to_scrape>>.
RECURSIVE SelectPosts(_, _, _)
SelectPosts(elems, ids, sel) ==
  IF elems = << >> THEN <<ids, sel>>
  ELSE IF LimitIsNone \/ Cardinality(ids) < LimitVal
         THEN SelectPosts(Tail(elems), ids \cup {Head(elems)}, Append(sel, Head(elems)))
         ELSE SelectPosts(Tail(elems), ids, sel)

\* A slice that starts one node too far.
NewElements_skipping_one == SubSeq(feed, Len(scraped_posts) + 2, Len(feed))

\* post_elements[len(scraped_posts):]
NewElements == SubSeq(feed, Len(scraped_posts) + 1, Len(feed))

\* WebDriverWait(...).until(presence_of_all_elements_located) times out when
\* no node is rendered, or the lookup fails: the exception is logged by the
\* handlers of get_posts and the loop is left.
WaitFails ==
  /\ pc = "wait"
  /\ pc' = "shutdown"
  /\ ended' = "error"
  /\ UNCHANGED <<commentVars, retryVars, mediaVars, driver, limit, comment_limit, download_media_dir, max_workers,
                 feed, post_ids, scraped_posts, tasks, dispatched>>

\* The nodes are read, the new ones selected and handed to executor.map.
ReadAndSubmit ==
  /\ pc = "wait"
  /\ feed # << >>
  /\ LET r == SelectPosts(NewElements, post_ids, << >>)
     IN /\ post_ids' = r[1]
        /\ tasks' = [i \in 1..Len(r[2]) |-> NewTask(r[2][i])]
        /\ dispatched' = dispatched \o r[2]
  /\ pc' = "join"
  /\ UNCHANGED <<commentVars, retryVars, mediaVars, driver, limit, comment_limit, download_media_dir, max_workers,
                 feed, scraped_posts, ended>>

\* Number of results of the current batch that extend() has appended.
Joined == Len(scraped_posts) - (Len(dispatched) - Len(tasks))

\* scraped_posts.extend(executor.map(...)): the results are taken in the
\* order of submission, each when its future is done.
JoinNext ==
  /\ pc = "join"
  /\ Joined < Len(tasks)
  /\ LET t == tasks[Joined + 1]
     IN /\ t.pc = "done"
        /\ t.result.kind # "raised"
        /\ scraped_posts' = Append(scraped_posts, t.result)
  /\ UNCHANGED <<commentVars, retryVars, mediaVars, pc, driver, limit, comment_limit, download_media_dir, max_workers,
                 feed, post_ids, tasks, dispatched, ended>>

\* The future raises: the exception leaves extend(), the map iterator cancels
\* the futures not yet started, and the handlers of get_posts log it.
JoinRaises ==
  /\ pc = "join"
  /\ Joined < Len(tasks)
  /\ LET t == tasks[Joined + 1]
     IN /\ t.pc = "done"
        /\ t.result.kind = "raised"
  /\ tasks' = [i \in 1..Len(tasks) |->
                 IF tasks[i].pc = "queued"
                   THEN [tasks[i] EXCEPT !.pc = "cancelled"]
                   ELSE tasks[i]]
  /\ pc' = "shutdown"
  /\ ended' = "error"
  /\ UNCHANGED <<commentVars, retryVars, mediaVars, driver, limit, comment_limit, download_media_dir, max_workers,
                 feed, post_ids, scraped_posts, dispatched>>

\* A loop that goes on without waiting for the results of the batch.
JoinDone_without_wait ==
  /\ pc = "join"
  /\ pc' = "check"
  /\ UNCHANGED <<commentVars, retryVars, mediaVars, driver, limit, comment_limit,
                 download_media_dir, max_workers, feed, post_ids, scraped_posts,
                 tasks, dispatched, ended>>

\* extend() has consumed the whole iterator of executor.map.
JoinDone ==
  /\ pc = "join"
  /\ Joined = Len(tasks)
  /\ pc' = "check"
  /\ UNCHANGED <<commentVars, retryVars, mediaVars, driver, limit, comment_limit, download_media_dir, max_workers,
                 feed, post_ids, scraped_posts, tasks, dispatched, ended>>

\* A quota test that takes the limit by its truth value ("if limit and ...").
LimitReached_by_truth_value ==
  ~LimitIsNone /\ LimitVal # 0 /\ Cardinality(post_ids) = LimitVal

LimitReached == ~LimitIsNone /\ Cardinality(post_ids) = LimitVal

\* if limit is not None and len(post_ids) == limit: break
BreakOnLimit ==
  /\ pc = "check"
  /\ LimitReached
  /\ pc' = "shutdown"
  /\ ended' = "quota"
  /\ UNCHANGED <<commentVars, retryVars, mediaVars, driver, limit, comment_limit, download_media_dir, max_workers,
                 feed, post_ids, scraped_posts, tasks, dispatched>>

\* scroll_page returns True: the page grew by k nodes.
ScrollGrows ==
  /\ pc = "check"
  /\ ~LimitReached
  /\ \E more \in SeqsUpTo(PostIds, MaxFeed - Len(feed)) :
       /\ more # << >>
       /\ Canonical(feed \o more)
       /\ feed' = feed \o more
  /\ pc' = "wait"
  /\ UNCHANGED <<commentVars, retryVars, mediaVars, driver, limit, comment_limit, download_media_dir, max_workers,
                 post_ids, scraped_posts, tasks, dispatched, ended>>

\* scroll_page returns False: the loop is left.
ScrollNoGrowth ==
  /\ pc = "check"
  /\ ~LimitReached
  /\ pc' = "shutdown"
  /\ ended' = "nogrowth"
  /\ UNCHANGED <<commentVars, retryVars, mediaVars, driver, limit, comment_limit, download_media_dir, max_workers,
                 feed, post_ids, scraped_posts, tasks, dispatched>>

\* A get_posts without the except clauses: the exception of scroll_page
\* leaves it.
ScrollFails_without_handler ==
  /\ pc = "check"
  /\ ~LimitReached
  /\ pc' = "raised"
  /\ ended' = "error"
  /\ UNCHANGED <<commentVars, retryVars, mediaVars, driver, limit, comment_limit,
                 download_media_dir, max_workers, feed, post_ids, scraped_posts,
                 tasks, dispatched>>

\* scroll_page raises (execute_script fails): the exception is logged by the
\* handlers of get_posts and the loop is left.
ScrollFails ==
  /\ pc = "check"
  /\ ~LimitReached
  /\ pc' = "shutdown"
  /\ ended' = "error"
  /\ UNCHANGED <<commentVars, retryVars, mediaVars, driver, limit, comment_limit, download_media_dir, max_workers,
                 feed, post_ids, scraped_posts, tasks, dispatched>>

\* The with block of the executor is left: shutdown(wait=True) returns when
\* no future is running; then the logging and return scraped_posts.
ShutdownAndReturn ==
  /\ pc = "shutdown"
  /\ \A i \in 1..Len(tasks) : tasks[i].pc \in {"done", "cancelled"}
  /\ pc' = "returned"
  /\ UNCHANGED <<commentVars, retryVars, mediaVars, driver, limit, comment_limit, download_media_dir, max_workers,
                 feed, post_ids, scraped_posts, tasks, dispatched, ended>>

----------------------------------------------------------------------------
\* RedditScraper.get_post (one worker of the pool)

Running == {i \in 1..Len(tasks) : tasks[i].pc \notin {"queued", "done", "cancelled"}}

\* get_post whose except clause returns None with no finally clause after it.
get_post_fail_without_finally(t) ==
  [t EXCEPT !.pc = "done", !.keys = {}, !.result = NoneResult]

\* A step of get_post raises: the except clause returns None, then the
\* finally clause runs self.quit_web_driver(driver). With driver not yet
\* bound that statement raises UnboundLocalError, which replaces the return.
get_post_fail(t) ==
  IF t.driver = "unbound"
    THEN [t EXCEPT !.pc = "done", !.keys = {}, !.result = Raised]
    ELSE [t EXCEPT !.pc = "done", !.keys = {}, !.result = NoneResult,
                   !.driver = quit_web_driver(t.driver)]

\* return content, then the finally clause.
get_post_return(t, keys) ==
  [t EXCEPT !.pc = "done", !.keys = {}, !.result = Content(t.id, keys),
            !.driver = quit_web_driver(t.driver)]

SetTask(i, t) ==
  /\ tasks' = [tasks EXCEPT ![i] = t]
  /\ UNCHANGED <<commentVars, retryVars, mediaVars, pc, driver, limit, comment_limit, download_media_dir, max_workers,
                 feed, post_ids, scraped_posts, dispatched, ended>>

\* A pool that starts a thread for every queued call.
WorkerStart_without_pool_bound(i) ==
  /\ tasks[i].pc = "queued"
  /\ \A j \in 1..(i - 1) : tasks[j].pc # "queued"
  /\ SetTask(i, [tasks[i] EXCEPT !.pc = "tag"])

\* A pool thread takes the oldest queued call; the pool has max_workers
\* threads.
WorkerStart(i) ==
  /\ tasks[i].pc = "queued"
  /\ \A j \in 1..(i - 1) : tasks[j].pc # "queued"
  /\ Cardinality(Running) < max_workers
  /\ SetTask(i, [tasks[i] EXCEPT !.pc = "tag"])

\* content = {"tag": self.scrape_post_tag(post)}, the log line and the url
ScrapeTag(i) ==
  /\ tasks[i].pc = "tag"
  /\ \/ SetTask(i, [tasks[i] EXCEPT !.pc = "build", !.keys = {"tag", "url"}])
     \/ SetTask(i, get_post_fail(tasks[i]))

\* driver = self.build_web_driver(headless=True)
BuildDriver(i) ==
  /\ tasks[i].pc = "build"
  /\ \/ SetTask(i, [tasks[i] EXCEPT !.pc = "page", !.driver = "open"])
     \/ SetTask(i, get_post_fail(tasks[i]))

\* driver.get(content["url"]), scrape_post_content, scrape_comments if
\* comment_limit, download_media if download_media_dir (which catches every
\* exception itself), return content: on the worker's own session. The steps
\* before the failing one have filled content; the except clause drops it.
\* A get_post that scrapes comments and media whatever its arguments.
PageKeys_unconditional == {"post", "comments", "media_path"}

PageKeys ==
  {"post"} \cup (IF comment_limit # 0 THEN {"comments"} ELSE {})
           \cup (IF download_media_dir THEN {"media_path"} ELSE {})

ScrapePage(i) ==
  /\ tasks[i].pc = "page"
  /\ \/ SetTask(i, get_post_return(tasks[i], tasks[i].keys \cup PageKeys))
     \/ \E built \in SUBSET PageKeys :
          /\ "media_path" \notin built
          /\ ("comments" \in built => "post" \in built)
          /\ SetTask(i, get_post_fail([tasks[i] EXCEPT !.keys = @ \cup built]))

Worker ==
  \E i \in 1..Len(tasks) :
    \/ WorkerStart(i)
    \/ ScrapeTag(i)
    \/ BuildDriver(i)
    \/ ScrapePage(i)

----------------------------------------------------------------------------
----------------------------------------------------------------------------
\* The comments of a post page (comments.py, and scrape_comments of
\* reddit_scraper.py)

\* A shreddit-comment node: its thingid and depth attributes and whether it
\* holds a "more replies" button (faceplate-partial[loading='action']). The
\* button is only looked for in depth-0 nodes.
CommentIds == 1..MaxComments

CommentNodes ==
  {[thingid |-> c, depth |-> d, more |-> m] :
     c \in CommentIds, d \in {0, 1}, m \in BOOLEAN}

NodeIds(s) == [i \in 1..Len(s) |-> s[i].thingid]

\* The pages tried: thingids named in order of first appearance.
CommentPage(s) ==
  /\ Canonical(NodeIds(s))
  /\ \A i \in 1..Len(s) : s[i].depth # 0 => ~s[i].more

\* The value of a call of get: no call made yet, a tuple
\* (scraped_comments, _continue), or None when the function ends without a
\* return statement.
NoReturn == [kind |-> "none", scraped |-> {}, continue |-> FALSE]
ReturnsNone == [kind |-> "None", scraped |-> {}, continue |-> FALSE]
Tuple(scraped, continue) == [kind |-> "tuple", scraped |-> scraped, continue |-> continue]

\* get with the test "if thingid in self.comment_ids" left out.
get_without_visited_test(comment, ids, lim) ==
  LET added == ids \cup {comment.thingid}
  IN IF Cardinality(added) = lim
       THEN [comment_ids |-> added, added |-> TRUE,
             ret |-> Tuple({comment.thingid}, FALSE)]
       ELSE IF ~comment.more
         THEN [comment_ids |-> added, added |-> TRUE,
               ret |-> Tuple({comment.thingid}, TRUE)]
         ELSE [comment_ids |-> added, added |-> TRUE, ret |-> ReturnsNone]

\* get that reports _continue = True when the limit is reached.
get_without_stop(comment, ids, lim) ==
  IF comment.thingid \in ids
    THEN [comment_ids |-> ids, added |-> FALSE, ret |-> Tuple({}, TRUE)]
    ELSE LET added == ids \cup {comment.thingid}
         IN IF Cardinality(added) = lim \/ ~comment.more
              THEN [comment_ids |-> added, added |-> TRUE,
                    ret |-> Tuple({comment.thingid}, TRUE)]
              ELSE [comment_ids |-> added, added |-> TRUE, ret |-> ReturnsNone]

\* CommentScraper.get(comment, comment_limit) with self.comment_ids = ids:
\* the new comment_ids, whether self.comment_ids.add(thingid) was run, and the
\* value returned.
get(comment, ids, lim) ==
  IF comment.thingid \in ids
    THEN [comment_ids |-> ids, added |-> FALSE, ret |-> Tuple({}, TRUE)]
    ELSE LET added == ids \cup {comment.thingid}
         IN IF Cardinality(added) = lim
              THEN [comment_ids |-> added, added |-> TRUE,
                    ret |-> Tuple({comment.thingid}, FALSE)]
              ELSE IF ~comment.more
                THEN [comment_ids |-> added, added |-> TRUE,
                      ret |-> Tuple({comment.thingid}, TRUE)]
                ELSE [comment_ids |-> added, added |-> TRUE, ret |-> ReturnsNone]

\* dict.update: a key the dict holds keeps its place, a new key goes last.
Update(keys, scraped) ==
  IF scraped = {} \/ scraped \subseteq Range(keys) THEN keys
  ELSE Append(keys, CHOOSE k \in scraped : TRUE)

\* The comment tree is waited for; without one the TimeoutException handler
\* returns the empty all_comments. With one, total_comments is read and
\* comment_limit lowered to it.
CS_Start ==
  /\ cs_pc = "start"
  /\ IF tree_present
       THEN /\ cs_comment_limit' = Min(comment_limit, total_comments)
            /\ cs_pc' = "find"
       ELSE /\ cs_comment_limit' = cs_comment_limit
            /\ cs_pc' = "returned"
  /\ UNCHANGED <<postVars, retryVars, mediaVars, comment_limit, comment_nodes, tree_present,
                 total_comments, comment_ids, all_comments, current_comments,
                 cs_i, get_ret, recorded>>

\* A slice that starts one node after len(all_comments).
CS_Find_skipping_one ==
  /\ cs_pc = "find"
  /\ current_comments' = comment_nodes
  /\ cs_i' = Len(all_comments) + 2
  /\ cs_pc' = "iter"
  /\ UNCHANGED <<postVars, retryVars, mediaVars, comment_limit, comment_nodes,
                 tree_present, total_comments, cs_comment_limit, comment_ids,
                 all_comments, get_ret, recorded>>

\* current_comments = comment_tree.find_elements(...), and the slice
\* current_comments[len(all_comments):]
CS_Find ==
  /\ cs_pc = "find"
  /\ current_comments' = comment_nodes
  /\ cs_i' = Len(all_comments) + 1
  /\ cs_pc' = "iter"
  /\ UNCHANGED <<postVars, retryVars, mediaVars, comment_limit, comment_nodes, tree_present,
                 total_comments, cs_comment_limit, comment_ids, all_comments,
                 get_ret, recorded>>

\* The for loop takes the next comment: a child is skipped, a depth-0 comment
\* is given to get.
CS_Iter ==
  /\ cs_pc = "iter"
  /\ cs_i <= Len(current_comments)
  /\ LET comment == current_comments[cs_i]
     IN IF comment.depth # 0
          THEN /\ cs_i' = cs_i + 1
               /\ UNCHANGED <<cs_pc, comment_ids, get_ret, recorded>>
          ELSE LET r == get(comment, comment_ids, cs_comment_limit)
               IN /\ comment_ids' = r.comment_ids
                  /\ get_ret' = r.ret
                  /\ recorded' = IF r.added
                                   THEN Append(recorded, comment.thingid)
                                   ELSE recorded
                  /\ cs_pc' = "got"
                  /\ cs_i' = cs_i
  /\ UNCHANGED <<postVars, retryVars, mediaVars, comment_limit, comment_nodes, tree_present,
                 total_comments, cs_comment_limit, all_comments, current_comments>>

\* scrape_comment_content raises inside get (find_element finds no content
\* element): only TimeoutException is handled, the exception leaves
\* scrape_comments.
CS_ContentRaises ==
  /\ cs_pc = "iter"
  /\ cs_i <= Len(current_comments)
  /\ current_comments[cs_i].depth = 0
  /\ cs_pc' = "raised"
  /\ UNCHANGED <<postVars, retryVars, mediaVars, comment_limit, comment_nodes, tree_present,
                 total_comments, cs_comment_limit, comment_ids, all_comments,
                 current_comments, cs_i, get_ret, recorded>>

\* scraped_comments, _continue = self.get(...): unpacking None raises
\* TypeError; otherwise all_comments.update, and return when get said stop.
CS_Got ==
  /\ cs_pc = "got"
  /\ IF get_ret.kind = "None"
       THEN /\ cs_pc' = "raised"
            /\ UNCHANGED <<all_comments, cs_i>>
       ELSE /\ all_comments' = Update(all_comments, get_ret.scraped)
            /\ IF get_ret.continue
                 THEN cs_pc' = "iter" /\ cs_i' = cs_i + 1
                 ELSE cs_pc' = "returned" /\ cs_i' = cs_i
  /\ UNCHANGED <<postVars, retryVars, mediaVars, comment_limit, comment_nodes, tree_present,
                 total_comments, cs_comment_limit, comment_ids,
                 current_comments, get_ret, recorded>>

\* The for loop is over and scroll_page returns True: the page grew.
CS_ScrollGrows ==
  /\ cs_pc = "iter"
  /\ cs_i > Len(current_comments)
  /\ \E more \in SeqsUpTo(CommentNodes, total_comments - Len(comment_nodes)) :
       /\ more # << >>
       /\ CommentPage(comment_nodes \o more)
       /\ comment_nodes' = comment_nodes \o more
  /\ cs_pc' = "find"
  /\ UNCHANGED <<postVars, retryVars, mediaVars, comment_limit, tree_present, total_comments,
                 cs_comment_limit, comment_ids, all_comments, current_comments,
                 cs_i, get_ret, recorded>>

\* scroll_page returns False: break, return all_comments.
CS_ScrollNoGrowth ==
  /\ cs_pc = "iter"
  /\ cs_i > Len(current_comments)
  /\ cs_pc' = "returned"
  /\ UNCHANGED <<postVars, retryVars, mediaVars, comment_limit, comment_nodes, tree_present,
                 total_comments, cs_comment_limit, comment_ids, all_comments,
                 current_comments, cs_i, get_ret, recorded>>

\* scrape_comments has returned and is called again on the same CommentScraper,
\* with the driver on the same page: all_comments and comment_limit are
\* locals of the new call, self.comment_ids is what the instance holds.
CS_CallAgain ==
  /\ cs_pc = "returned"
  /\ cs_pc' = "start"
  /\ cs_comment_limit' = comment_limit
  /\ all_comments' = << >>
  /\ current_comments' = << >>
  /\ cs_i' = 0
  /\ get_ret' = NoReturn
  /\ UNCHANGED <<postVars, retryVars, mediaVars, comment_limit, comment_nodes,
                 tree_present, total_comments, comment_ids, recorded>>

\* RedditScraper.scrape_comments(driver, comment_limit): every depth-0 node
\* becomes a key of all_comments; comment_limit is not read.
RECURSIVE TopLevelKeys(_, _)
TopLevelKeys(nodes, keys) ==
  IF nodes = << >> THEN keys
  ELSE TopLevelKeys(Tail(nodes),
                    IF Head(nodes).depth = 0
                      THEN Update(keys, {Head(nodes).thingid})
                      ELSE keys)

RS_ScrapeComments ==
  /\ cs_pc = "start"
  /\ all_comments' = TopLevelKeys(comment_nodes, << >>)
  /\ cs_pc' = "returned"
  /\ UNCHANGED <<postVars, retryVars, mediaVars, comment_limit, comment_nodes, tree_present,
                 total_comments, cs_comment_limit, comment_ids,
                 current_comments, cs_i, get_ret, recorded>>

----------------------------------------------------------------------------
\* utils.retry: one call of the wrapper around a decorated function

\* What one invocation of func does: it returns a value or raises an error.
Values == {"v1", "v2"}
Errors == {"e1", "e2"}
Returns(v) == [ok |-> TRUE, val |-> v]
Raises(e) == [ok |-> FALSE, val |-> e]
Outcomes == {Returns(v) : v \in Values} \cup {Raises(e) : e \in Errors}

\* What the wrapper hands to its caller.
NoOutcome == [kind |-> "none", val |-> ""]
Returned(v) == [kind |-> "returned", val |-> v]
\* raise Exception(f"Exceeded max retry num: {retries} failed")
Exhausted == [kind |-> "raised", val |-> "exceeded max retry num"]

\* A wrapper whose loop runs once more than range(retries).
attempts_left_off_by_one(n, r) == n <= r

\* for attempt in range(retries): whether the loop has another pass after n.
attempts_left(n, r) == n < r

\* A wrapper whose except clause does not sleep.
after_call_without_sleep(o) == IF o.ok THEN "returned" ELSE "loop"

\* try: return func(*args, **kwargs); except Exception: log, then time.sleep
after_call(o) == IF o.ok THEN "returned" ELSE "except"

\* The call of the decorated function enters the wrapper.
wrapper_enter ==
  /\ r_pc' = "loop"
  /\ r_log' = << >>
  /\ r_sleeps' = 0
  /\ r_out' = NoOutcome
  /\ UNCHANGED retries

\* One pass of the loop up to the end of func.
R_Call ==
  /\ r_pc = "loop"
  /\ attempts_left(Len(r_log), retries)
  /\ \E o \in Outcomes :
       /\ r_log' = Append(r_log, o)
       /\ r_pc' = after_call(o)
       /\ r_out' = IF r_pc' = "returned" THEN Returned(o.val) ELSE r_out
  /\ UNCHANGED <<postVars, comment_limit, commentVars, mediaVars, retries, r_sleeps>>

\* time.sleep(retry_sleep_sec) in the except clause, the log line after it,
\* and back to the head of the loop.
R_Sleep ==
  /\ r_pc = "except"
  /\ r_sleeps' = r_sleeps + 1
  /\ r_pc' = "loop"
  /\ UNCHANGED <<postVars, comment_limit, commentVars, mediaVars, retries, r_log, r_out>>

\* The loop is over: the wrapper raises its own exception.
R_Exhausted ==
  /\ r_pc = "loop"
  /\ ~attempts_left(Len(r_log), retries)
  /\ r_pc' = "raised"
  /\ r_out' = Exhausted
  /\ UNCHANGED <<postVars, comment_limit, commentVars, mediaVars, retries, r_log, r_sleeps>>

----------------------------------------------------------------------------
\* Media of a post: MediaScraper (media.py) and RedditScraper.download_media
\* (reddit_scraper.py)

\* What name_pattern extracts from a src, NoName where it does not match.
Names == {"n1", "n2"}
NoName == "no name"
\* The name of the asset of a direct reference is the id of the post.
IdName == "id"
\* mimetypes.guess_extension of the response's content type
Exts == {".jpg", ".png"}

\* An img.absolute node: src is "none" when the attribute is missing,
\* "media" when it matches media_pattern and "other" when it does not.
ImageNodes ==
  {[src |-> "none", name |-> NoName]}
    \cup [src : {"media", "other"}, name : Names \cup {NoName}]

Asset(url, name) == [url |-> url, name |-> name]

AssetsOf(imgs) == [i \in 1..Len(imgs) |-> Asset(imgs[i].src, imgs[i].name)]

\* get_gallery_urls: the nodes that pass "if src and media_pattern.match(src)"
GalleryMatches == SelectSeq(m_images, LAMBDA n : n.src = "media")

\* RedditScraper.download_media: the nodes that pass "if src"
GalleryWithSrc == SelectSeq(m_images, LAMBDA n : n.src # "none")

\* name_pattern.match(src).group(1) raises AttributeError where match is None.
NameRaises(imgs) == \E i \in 1..Len(imgs) : imgs[i].name = NoName

\* MediaScraper.get_media_urls: it returns a list, returns None, or an
\* exception leaves it (find_element finds no carousel, or a name is missing).
get_media_urls ==
  IF m_href = "gallery"
    THEN IF ~m_carousel \/ NameRaises(GalleryMatches)
           THEN [kind |-> "raises", urls |-> << >>]
           ELSE [kind |-> "list", urls |-> AssetsOf(GalleryMatches)]
  ELSE IF m_href = "media"
    THEN [kind |-> "list", urls |-> <<Asset("media", IdName)>>]
  ELSE [kind |-> "None", urls |-> << >>]

\* os.path.join(path, f_name + ext)
f_path(name, ext) == <<name, ext>>

Logged(k, what) == Append(m_log, [k |-> k, what |-> what])

\* MediaScraper.download_media up to its loop: get_media_urls, then
\* "if not media_urls: return None", then os.makedirs.
MS_Start ==
  /\ m_impl = "MediaScraper"
  /\ m_pc = "start"
  /\ LET got == get_media_urls
     IN IF got.kind = "raises"
          THEN /\ m_pc' = "raised"
               /\ m_result' = "raised"
               /\ UNCHANGED <<media_urls, dir_made>>
          ELSE IF got.urls = << >>
            THEN /\ m_pc' = "returned"
                 /\ m_result' = "None"
                 /\ UNCHANGED <<media_urls, dir_made>>
            ELSE /\ dir_made' = TRUE
                 /\ m_pc' = "loop"
                 /\ media_urls' = got.urls
                 /\ UNCHANGED m_result
  /\ UNCHANGED <<postVars, comment_limit, commentVars, retryVars, m_impl, m_href,
                 m_carousel, m_images, m_k, media_paths, files, m_log>>

\* res = self.fetch(url): the call enters the retry wrapper.
MS_Fetch ==
  /\ m_impl = "MediaScraper"
  /\ m_pc = "loop"
  /\ m_k <= Len(media_urls)
  /\ wrapper_enter
  /\ m_pc' = "fetch"
  /\ UNCHANGED <<postVars, comment_limit, commentVars, m_impl, m_href, m_carousel,
                 m_images, media_urls, m_k, media_paths, dir_made, files,
                 m_result, m_log>>

\* fetch raised, the wrapper has given up: except Exception: log, continue
MS_FetchFailed ==
  /\ m_pc = "fetch"
  /\ r_pc = "raised"
  /\ r_pc' = "idle"
  /\ m_pc' = "loop"
  /\ m_k' = m_k + 1
  /\ m_log' = Logged(m_k, "fetch failed")
  /\ UNCHANGED <<postVars, comment_limit, commentVars, retries, r_log, r_sleeps, r_out,
                 m_impl, m_href, m_carousel, m_images, media_urls, media_paths,
                 dir_made, files, m_result>>

\* fetch returned a response: f_path = self.save(res, path, name), then
\* media_paths.append(f_path); or save raises, before or after open has
\* created the file, and the except clause continues.
MS_Save ==
  /\ m_pc = "fetch"
  /\ r_pc = "returned"
  /\ r_pc' = "idle"
  /\ \/ \E ext \in Exts :
          /\ files' = files \cup {f_path(media_urls[m_k].name, ext)}
          /\ media_paths' = Append(media_paths, f_path(media_urls[m_k].name, ext))
          /\ m_log' = Logged(m_k, "saved")
          /\ m_pc' = "loop"
          /\ m_k' = m_k + 1
     \/ /\ \/ UNCHANGED files
           \/ \E ext \in Exts : files' = files \cup {f_path(media_urls[m_k].name, ext)}
        /\ m_log' = Logged(m_k, "save failed")
        /\ m_pc' = "loop"
        /\ m_k' = m_k + 1
        /\ UNCHANGED media_paths
  /\ UNCHANGED <<postVars, comment_limit, commentVars, retries, r_log, r_sleeps, r_out,
                 m_impl, m_href, m_carousel, m_images, media_urls, dir_made,
                 m_result>>

\* A return of media_paths whatever it holds.
MS_Return_without_None ==
  /\ m_impl = "MediaScraper"
  /\ m_pc = "loop"
  /\ m_k > Len(media_urls)
  /\ m_pc' = "returned"
  /\ m_result' = "list"
  /\ UNCHANGED <<postVars, comment_limit, commentVars, retryVars, m_impl, m_href,
                 m_carousel, m_images, media_urls, m_k, media_paths, dir_made,
                 files, m_log>>

\* return media_paths if media_paths else None
MS_Return ==
  /\ m_impl = "MediaScraper"
  /\ m_pc = "loop"
  /\ m_k > Len(media_urls)
  /\ m_pc' = "returned"
  /\ m_result' = IF media_paths # << >> THEN "list" ELSE "None"
  /\ UNCHANGED <<postVars, comment_limit, commentVars, retryVars, m_impl, m_href,
                 m_carousel, m_images, media_urls, m_k, media_paths, dir_made,
                 files, m_log>>

\* RedditScraper.download_media up to its loop: os.makedirs, then the urls.
\* Every exception ends in "except Exception: return None".
RD_Start ==
  /\ m_impl = "RedditScraper"
  /\ m_pc = "start"
  /\ dir_made' = TRUE
  /\ IF m_href = "gallery" /\ (~m_carousel \/ NameRaises(GalleryWithSrc))
       THEN /\ m_pc' = "returned"
            /\ m_result' = "None"
            /\ UNCHANGED media_urls
       ELSE /\ m_pc' = "loop"
            /\ media_urls' = IF m_href = "gallery" THEN AssetsOf(GalleryWithSrc)
                             ELSE <<Asset(m_href, IdName)>>
            /\ UNCHANGED m_result
  /\ UNCHANGED <<postVars, comment_limit, commentVars, retryVars, m_impl, m_href,
                 m_carousel, m_images, m_k, media_paths, files, m_log>>

\* One pass of the loop of RedditScraper.download_media.
RD_Asset ==
  /\ m_impl = "RedditScraper"
  /\ m_pc = "loop"
  /\ m_k <= Len(media_urls)
  /\ \/ \* the url does not match media_pattern: continue
        /\ media_urls[m_k].url # "media"
        /\ m_log' = Logged(m_k, "skipped")
        /\ m_k' = m_k + 1
        /\ UNCHANGED <<m_pc, m_result, media_paths, files>>
     \/ \* requests.get answers with a status other than 200: continue
        /\ media_urls[m_k].url = "media"
        /\ m_log' = Logged(m_k, "bad status")
        /\ m_k' = m_k + 1
        /\ UNCHANGED <<m_pc, m_result, media_paths, files>>
     \/ \* requests.get raises: the except clause of the function returns None
        /\ media_urls[m_k].url = "media"
        /\ m_log' = Logged(m_k, "fetch failed")
        /\ m_pc' = "returned"
        /\ m_result' = "None"
        /\ UNCHANGED <<m_k, media_paths, files>>
     \/ \* status 200 and the file is written
        /\ media_urls[m_k].url = "media"
        /\ \E ext \in Exts :
             /\ files' = files \cup {f_path(media_urls[m_k].name, ext)}
             /\ media_paths' = Append(media_paths, f_path(media_urls[m_k].name, ext))
        /\ m_log' = Logged(m_k, "saved")
        /\ m_k' = m_k + 1
        /\ UNCHANGED <<m_pc, m_result>>
     \/ \* status 200 and saving raises: the except clause returns None
        /\ media_urls[m_k].url = "media"
        /\ \/ UNCHANGED files
           \/ \E ext \in Exts : files' = files \cup {f_path(media_urls[m_k].name, ext)}
        /\ m_log' = Logged(m_k, "save failed")
        /\ m_pc' = "returned"
        /\ m_result' = "None"
        /\ UNCHANGED <<m_k, media_paths>>
  /\ UNCHANGED <<postVars, comment_limit, commentVars, retryVars, m_impl, m_href,
                 m_carousel, m_images, media_urls, dir_made>>

\* return media_paths
RD_Return ==
  /\ m_impl = "RedditScraper"
  /\ m_pc = "loop"
  /\ m_k > Len(media_urls)
  /\ m_pc' = "returned"
  /\ m_result' = "list"
  /\ UNCHANGED <<postVars, comment_limit, commentVars, retryVars, m_impl, m_href,
                 m_carousel, m_images, media_urls, m_k, media_paths, dir_made,
                 files, m_log>>

----------------------------------------------------------------------------
\* Specifications

RetryIdle ==
  /\ retries = 0
  /\ r_pc = "idle"
  /\ r_log = << >>
  /\ r_sleeps = 0
  /\ r_out = NoOutcome

MediaIdle ==
  /\ m_impl = "none"
  /\ m_href = "other"
  /\ m_carousel = FALSE
  /\ m_images = << >>
  /\ m_pc = "idle"
  /\ media_urls = << >>
  /\ m_k = 0
  /\ media_paths = << >>
  /\ dir_made = FALSE
  /\ files = {}
  /\ m_result = "pending"
  /\ m_log = << >>

CommentsIdle ==
  /\ comment_nodes = << >>
  /\ tree_present = FALSE
  /\ total_comments = 0
  /\ cs_pc = "idle"
  /\ cs_comment_limit = 0
  /\ comment_ids = {}
  /\ all_comments = << >>
  /\ current_comments = << >>
  /\ cs_i = 0
  /\ get_ret = NoReturn
  /\ recorded = << >>

Init ==
  /\ CommentsIdle
  /\ RetryIdle
  /\ MediaIdle
  /\ pc = "new"
  /\ driver = "none"
  /\ limit \in Limits
  /\ comment_limit \in (-1)..1
  /\ download_media_dir \in BOOLEAN
  /\ max_workers \in 1..MaxWorkers
  /\ feed \in {s \in SeqsUpTo(PostIds, MaxFeed) : Canonical(s)}
  /\ post_ids = {}
  /\ scraped_posts = << >>
  /\ tasks = << >>
  /\ dispatched = << >>
  /\ ended = "running"

Next ==
  \/ EnterBuildFails
  \/ EnterGetFails
  \/ EnterOk
  \/ ExitOnException
  \/ ExitClean
  \/ GetPostsCall
  \/ WaitFails
  \/ ReadAndSubmit
  \/ JoinNext
  \/ JoinRaises
  \/ JoinDone
  \/ BreakOnLimit
  \/ ScrollGrows
  \/ ScrollNoGrowth
  \/ ScrollFails
  \/ ShutdownAndReturn
  \/ Worker

Spec == Init /\ [][Next]_vars

\* A post page and a comment expansion on it. The page is consistent: it
\* never renders more comment nodes than its totalcomments attribute says.
PostsIdle ==
  /\ pc = "idle"
  /\ driver = "none"
  /\ limit = << >>
  /\ download_media_dir = FALSE
  /\ max_workers = 1
  /\ feed = << >>
  /\ post_ids = {}
  /\ scraped_posts = << >>
  /\ tasks = << >>
  /\ dispatched = << >>
  /\ ended = "running"

InitComments ==
  /\ PostsIdle
  /\ RetryIdle
  /\ MediaIdle
  /\ comment_limit \in 1..MaxCommentLimit
  /\ tree_present \in BOOLEAN
  /\ total_comments \in 0..MaxComments
  /\ comment_nodes \in {s \in SeqsUpTo(CommentNodes, total_comments) : CommentPage(s)}
  /\ cs_pc = "start"
  /\ cs_comment_limit = comment_limit
  /\ comment_ids = {}
  /\ all_comments = << >>
  /\ current_comments = << >>
  /\ cs_i = 0
  /\ get_ret = NoReturn
  /\ recorded = << >>

NextComments ==
  \/ CS_Start
  \/ CS_Find
  \/ CS_Iter
  \/ CS_ContentRaises
  \/ CS_Got
  \/ CS_ScrollGrows
  \/ CS_ScrollNoGrowth
  \/ RS_ScrapeComments

SpecComments == InitComments /\ [][NextComments]_vars

\* Calls of scrape_comments, one after the other, on one CommentScraper.
NextCommentRuns ==
  \/ CS_Start
  \/ CS_Find
  \/ CS_Iter
  \/ CS_ContentRaises
  \/ CS_Got
  \/ CS_ScrollGrows
  \/ CS_ScrollNoGrowth
  \/ CS_CallAgain

SpecCommentRuns == InitComments /\ [][NextCommentRuns]_vars

\* One call of a function decorated with retry(retries, retry_sleep_sec).
InitRetry ==
  /\ PostsIdle
  /\ comment_limit = 0
  /\ CommentsIdle
  /\ MediaIdle
  /\ retries \in 0..MaxRetries
  /\ r_pc = "loop"
  /\ r_log = << >>
  /\ r_sleeps = 0
  /\ r_out = NoOutcome

NextRetry ==
  \/ R_Call
  \/ R_Sleep
  \/ R_Exhausted

SpecRetry == InitRetry /\ [][NextRetry]_vars

\* One call of download_media on an open post page. fetch is decorated with
\* retry(retries=3, retry_sleep_sec=5). A page without a carousel shows no
\* gallery image.
InitMedia ==
  /\ PostsIdle
  /\ comment_limit = 0
  /\ CommentsIdle
  /\ retries = FetchRetries
  /\ r_pc = "idle"
  /\ r_log = << >>
  /\ r_sleeps = 0
  /\ r_out = NoOutcome
  /\ m_impl \in {"MediaScraper", "RedditScraper"}
  /\ m_href \in {"gallery", "media", "other"}
  /\ m_carousel \in BOOLEAN
  /\ m_images \in SeqsUpTo(ImageNodes, MaxImages)
  /\ (m_href # "gallery" \/ ~m_carousel) => m_images = << >>
  /\ m_pc = "start"
  /\ media_urls = << >>
  /\ m_k = 1
  /\ media_paths = << >>
  /\ dir_made = FALSE
  /\ files = {}
  /\ m_result = "pending"
  /\ m_log = << >>

NextMedia ==
  \/ MS_Start
  \/ MS_Fetch
  \/ R_Call
  \/ R_Sleep
  \/ R_Exhausted
  \/ MS_FetchFailed
  \/ MS_Save
  \/ MS_Return
  \/ RD_Start
  \/ RD_Asset
  \/ RD_Return

SpecMedia == InitMedia /\ [][NextMedia]_vars

----------------------------------------------------------------------------
\* Properties of the discovery loop and its workers (checked under Spec)

DiscoveryEnded == pc \in {"returned", "exited"}

\* C1: a get_posts run with limit Q >= 0 that ends by reaching the quota or by
\* a scroll reporting no growth has dispatched, and returns, exactly
\* min(Q, D) posts, D being the number of distinct identifiers rendered.
C1_DispatchesMinOfQuotaAndDistinct ==
  (DiscoveryEnded /\ ended \in {"quota", "nogrowth"} /\ ~LimitIsNone) =>
    /\ Len(dispatched) = Min(LimitVal, Cardinality(Range(feed)))
    /\ Len(scraped_posts) = Min(LimitVal, Cardinality(Range(feed)))

\* C2: no identifier is dispatched twice, in one batch or in two; a node
\* whose identifier is already in post_ids is not dispatched again.
C2_NoIdentifierDispatchedTwice == NoDup(dispatched)

\* C3: with a limit set, the number of posts dispatched so far and the
\* length of the result list are at most the limit.
C3_DispatchedAtMostLimit ==
  (~LimitIsNone /\ validate_limit(limit)) =>
    /\ Len(dispatched) <= LimitVal
    /\ Len(scraped_posts) <= LimitVal

\* C4: once extend() has ended for a batch, the result list has one entry
\* per dispatched stub, and entry i is the result of stub i: in discovery
\* order, whatever the order in which the workers finished.
C4_OutputMatchesInputOrder ==
  /\ \A i \in 1..Len(scraped_posts) :
       /\ i <= Len(dispatched)
       /\ scraped_posts[i].kind \in {"content", "None"}
       /\ scraped_posts[i].kind = "content" => scraped_posts[i].id = dispatched[i]
  /\ pc # "join" => Len(scraped_posts) = Len(dispatched)

\* C5: a failure at any step of get_post ends as the failure marker None of
\* that post: no exception leaves the worker, and none aborts the loop.
C5_WorkerFailureIsOnlyAMarker ==
  /\ \A i \in 1..Len(tasks) : tasks[i].result.kind # "raised"
  /\ \A i \in 1..Len(tasks) : tasks[i].pc # "cancelled"

\* C6: a worker that has returned holds no open session, on the success
\* path and on every failure path; once a batch has joined, and when
\* get_posts has returned, no worker session is open.
C6_WorkerSessionsClosed ==
  /\ \A i \in 1..Len(tasks) :
       tasks[i].pc \in {"queued", "done", "cancelled"} => tasks[i].driver # "open"
  /\ pc \notin {"join", "shutdown"} =>
       \A i \in 1..Len(tasks) : tasks[i].driver # "open"

\* C6, witness: a batch has joined in which one worker failed after opening
\* its session and another returned its content, both sessions closed.
C6_Witness ==
  /\ pc = "check"
  /\ \E i, j \in 1..Len(tasks) :
       /\ tasks[i].result.kind = "None" /\ tasks[i].driver = "closed"
       /\ tasks[j].result.kind = "content" /\ tasks[j].driver = "closed"

\* C7: when the scope of the scraper has been left, by __exit__ or by
\* __enter__ raising, the top-level session is not open any more.
C7_TopLevelSessionReleased ==
  pc \in {"exited", "enter_raised"} => driver # "open"

----------------------------------------------------------------------------
\* Properties of the comment expansion (checked under SpecComments)

\* C8: the number of comments in the visited set and in the returned tree is
\* at most comment_limit.
C8_AtMostQuotaComments ==
  /\ Cardinality(comment_ids) <= comment_limit
  /\ Len(all_comments) <= comment_limit

QuotaHit == Cardinality(comment_ids) = comment_limit

\* C9: from the moment the visited count equals the quota, the only step of
\* the expansion is the return of exactly comment_limit comments: no other
\* comment is scraped and the page is not scrolled.
C9_StopsAtQuota ==
  [][QuotaHit =>
       /\ cs_pc = "got"
       /\ cs_pc' = "returned"
       /\ comment_ids' = comment_ids
       /\ comment_nodes' = comment_nodes
       /\ Len(all_comments') = comment_limit
       /\ Range(all_comments') = comment_ids]_vars

\* C9, witness: the expansion has returned at the quota with comments left
\* unvisited in the current list.
C9_Witness ==
  /\ cs_pc = "returned"
  /\ QuotaHit
  /\ Len(all_comments) = comment_limit
  /\ \E k \in (cs_i + 1)..Len(current_comments) :
       /\ current_comments[k].depth = 0
       /\ current_comments[k].thingid \notin comment_ids

GetOnVisited ==
  /\ cs_pc = "iter"
  /\ cs_pc' = "got"
  /\ current_comments[cs_i].thingid \in comment_ids

\* C10: a thingid is added to comment_ids at most once; get on a comment
\* already visited changes neither comment_ids nor all_comments and returns
\* ({}, True), after which the loop goes on with the next comment.
C10_VisitedAtMostOnce ==
  /\ [](NoDup(recorded) /\ Range(recorded) = comment_ids)
  /\ [][GetOnVisited =>
          /\ comment_ids' = comment_ids
          /\ recorded' = recorded
          /\ all_comments' = all_comments
          /\ get_ret' = Tuple({}, TRUE)]_vars
  /\ [][(cs_pc = "got" /\ get_ret = Tuple({}, TRUE)) =>
          /\ all_comments' = all_comments
          /\ cs_pc' = "iter"]_vars

\* C10, witness: after a scroll the loop met a comment it had visited, and
\* get reported that the expansion may continue.
C10_Witness ==
  /\ cs_pc = "got"
  /\ get_ret = Tuple({}, TRUE)
  /\ current_comments[cs_i].thingid \in Range(all_comments)
  /\ Len(current_comments) > cs_i

----------------------------------------------------------------------------
\* Properties of the retry wrapper (checked under SpecRetry)

AllRaised(log, n) == \A j \in 1..n : ~log[j].ok

\* C11: when func fails on its first k-1 invocations and succeeds on the
\* k-th, with k at most retries, the wrapper returns the value of that
\* k-th invocation, func has been invoked exactly k times and time.sleep
\* exactly k-1 times, and func is not invoked again after it has succeeded.
C11_ReturnsFirstSuccess ==
  /\ [](r_pc = "returned" =>
          LET k == Len(r_log)
          IN /\ k \in 1..retries
             /\ r_log[k].ok
             /\ AllRaised(r_log, k - 1)
             /\ r_out = Returned(r_log[k].val)
             /\ r_sleeps = k - 1)
  /\ [][r_pc = "returned" => (r_log' = r_log /\ r_sleeps' = r_sleeps /\ r_out' = r_out)]_vars

C11_Witness ==
  /\ r_pc = "returned"
  /\ Len(r_log) = 3
  /\ r_sleeps = 2
  /\ r_out = Returned("v2")

\* C12: when func fails on every invocation the wrapper invokes it exactly
\* retries times and then raises its exhausted failure; it never raises
\* while fewer than retries invocations have been made.
C12_RaisesAfterAllAttempts ==
  /\ Len(r_log) <= retries
  /\ r_pc = "raised" =>
       /\ Len(r_log) = retries
       /\ AllRaised(r_log, retries)
       /\ r_out = Exhausted
  /\ r_out.kind = "raised" => r_pc = "raised"

C12_Witness ==
  /\ r_pc = "raised"
  /\ retries = 3
  /\ Len(r_log) = 3

----------------------------------------------------------------------------
\* Properties of download_media (checked under SpecMedia)

Done == m_pc \in {"returned", "raised"}

FetchAttempted == \E i \in 1..Len(m_log) : m_log[i].what # "skipped"

\* C13: for a content-href that matches neither gallery_pattern nor
\* media_pattern, download_media returns None, creates no directory, writes
\* no file and attempts no fetch.
C13_NonMatchingLeavesNoTrace ==
  m_href = "other" =>
     /\ ~dir_made
     /\ files = {}
     /\ ~FetchAttempted
     /\ r_pc = "idle"
     /\ m_pc # "raised"
     /\ m_pc = "returned" => m_result = "None"

AllSucceeded ==
  \A i \in 1..Len(m_log) : m_log[i].what \notin {"fetch failed", "save failed"}

\* C14: when every fetch (and save) succeeds, MediaScraper.download_media on
\* a gallery whose carousel shows N image nodes ends with N files saved and
\* N distinct paths in its list, and on a direct media reference with
\* exactly one saved file.
C14_OneFilePerImageNode ==
  (m_impl = "MediaScraper" /\ Done /\ AllSucceeded) =>
     /\ (m_href = "gallery" /\ m_carousel) =>
          /\ m_pc = "returned"
          /\ Len(media_paths) = Len(m_images)
          /\ NoDup(media_paths)
          /\ Cardinality(files) = Len(m_images)
     /\ m_href = "media" =>
          /\ m_result = "list"
          /\ Len(media_paths) = 1
          /\ Cardinality(files) = 1

SavedCount == Cardinality({i \in 1..Len(m_log) : m_log[i].what = "saved"})

\* C15: an asset whose fetch or save fails for good is the only one lost:
\* when download_media is over, every resolved asset has been handled, in
\* order, every asset that did not fail is saved and listed, and
\* download_media has returned to get_post without raising.
C15_FailedAssetOnlySkipped ==
  (Done /\ media_urls # << >>) =>
     /\ m_pc = "returned"
     /\ Len(m_log) = Len(media_urls)
     /\ \A i \in 1..Len(m_log) : m_log[i].k = i
     /\ Len(media_paths) = SavedCount
     /\ SavedCount > 0 => m_result = "list"

----------------------------------------------------------------------------
\* Further properties of the discovery loop (checked under Spec)

OpenSessions == {i \in 1..Len(tasks) : tasks[i].driver = "open"}

\* C16: at no moment are more than max_workers calls of get_post in
\* progress, nor more than max_workers worker sessions open.
C16_AtMostMaxWorkersInFlight ==
  /\ Cardinality(Running) <= max_workers
  /\ Cardinality(OpenSessions) <= max_workers

C16_Witness ==
  /\ max_workers = 2
  /\ Cardinality(OpenSessions) = 2
  /\ \E i \in 1..Len(tasks) : tasks[i].pc = "queued"

IsPrefix(s, t) == Len(s) <= Len(t) /\ SubSeq(t, 1, Len(s)) = s

\* The posts handed to the pool in the batches before the current one.
EarlierBatches == Len(dispatched) - Len(tasks)

Records ==
  {scraped_posts[i] : i \in 1..Len(scraped_posts)}
    \cup {tasks[i].result : i \in 1..Len(tasks)}

\* C18: a record returned by get_post has the key "comments" exactly when
\* comment_limit is positive and the key "media_path" exactly when a
\* download directory was given; its tag, url and post are always there.
C18_OptionalPartsFollowArguments ==
  \A r \in Records :
    r.kind = "content" =>
      /\ {"tag", "url", "post"} \subseteq r.keys
      /\ "comments" \in r.keys <=> comment_limit > 0
      /\ "media_path" \in r.keys <=> download_media_dir

C18_Witness ==
  /\ comment_limit = 0
  /\ download_media_dir
  /\ \E i \in 1..Len(scraped_posts) :
       /\ scraped_posts[i].kind = "content"
       /\ "comments" \notin scraped_posts[i].keys
       /\ "media_path" \in scraped_posts[i].keys

\* self.scroll_page() is called, whatever it answers.
Scrolls == ScrollGrows \/ ScrollNoGrowth \/ ScrollFails

BatchJoined ==
  /\ \A i \in 1..Len(tasks) : tasks[i].pc = "done"
  /\ Len(scraped_posts) = Len(dispatched)

\* C19: the feed is scrolled only when every call of get_post of the
\* current batch has ended and its result is in scraped_posts.
C19_NoScrollWhileBatchInFlight == [][Scrolls => BatchJoined]_vars

C19_Witness ==
  /\ pc = "wait"
  /\ tasks # << >>
  /\ BatchJoined
  /\ Len(feed) > Len(dispatched)

\* The number of posts handed to the pool has reached a positive limit.
QuotaDispatched == ~LimitIsNone /\ LimitVal > 0 /\ Len(dispatched) = LimitVal

\* C20: once the number of dispatched posts equals the limit, the loop
\* neither scrolls the feed nor reads the node list again.
C20_NoScrollOrReadAfterQuota ==
  [][QuotaDispatched => ~(Scrolls \/ ReadAndSubmit)]_vars

\* C21: a get_posts run with limit 0 dispatches no post, opens no worker
\* session, never scrolls the feed, and what it returns is the empty list.
C21_LimitZeroDoesNothing ==
  /\ [](limit = <<0>> =>
          /\ dispatched = << >>
          /\ tasks = << >>
          /\ scraped_posts = << >>
          /\ ended \in {"running", "quota", "error", "invalid"})
  /\ [][limit = <<0>> => ~Scrolls]_vars

C21_Witness ==
  /\ limit = <<0>>
  /\ feed # << >>
  /\ pc = "returned"
  /\ ended = "quota"
  /\ scraped_posts = << >>

\* C22: with limit None, on a feed that only appends nodes, the run ends at
\* the first scroll that reports no growth (never on a quota, and nothing is
\* read or scrolled after it), and whenever a batch has been joined, so also
\* at that scroll, the posts dispatched are exactly the rendered nodes, each
\* once and in order.
C22_NoneLimitCollectsEveryNode ==
  LimitIsNone =>
    /\ ended # "quota"
    /\ ended = "nogrowth" => pc \in {"shutdown", "returned", "exited"}
    /\ (pc = "check" \/ ended = "nogrowth") =>
         /\ dispatched = feed
         /\ Len(scraped_posts) = Len(feed)

C22_Witness ==
  /\ LimitIsNone
  /\ ended = "nogrowth"
  /\ pc = "returned"
  /\ Len(feed) = 3
  /\ Len(tasks) < Len(dispatched)
  /\ dispatched = feed

\* The logging after the loop: "elif len(post_ids) < limit: logging.warning".
IncompleteWarning == ~LimitIsNone /\ Cardinality(post_ids) < LimitVal

\* C23: a run with a limit that has ended logs the incomplete-run warning
\* exactly when fewer posts than the limit were dispatched.
C23_WarningIffFewerThanLimit ==
  (pc = "returned" /\ ended # "invalid" /\ ~LimitIsNone) =>
     (IncompleteWarning <=> Len(dispatched) < LimitVal)

----------------------------------------------------------------------------
\* Further properties of the comment expansion (checked under SpecComments)

\* The node at index i is a comment of the given depth whose thingid is a key
\* of all_comments.
CollectedAt(i, depth) ==
  /\ comment_nodes[i].depth = depth
  /\ comment_nodes[i].thingid \in Range(all_comments)

\* C24: a reply (depth 1) is collected after its parent and before the
\* parent's next sibling: once a depth-0 node before it and a depth-0 node
\* after it are in all_comments, the reply is in all_comments too.
C24_RepliesVisitedInPreOrder ==
  \A j \in 1..Len(comment_nodes) :
    ( /\ comment_nodes[j].depth = 1
      /\ \E i \in 1..(j - 1) : CollectedAt(i, 0)
      /\ \E k \in (j + 1)..Len(comment_nodes) : CollectedAt(k, 0) )
    => CollectedAt(j, 1)

\* C25: when get is given a comment that shows a "more replies" button and
\* the limit is not reached, the expansion of that comment ends normally and
\* the loop goes on to the following comments: get hands back a tuple with
\* _continue = True.
C25_MoreRepliesThenContinue ==
  ( /\ cs_pc = "got"
    /\ current_comments[cs_i].more
    /\ Cardinality(comment_ids) # cs_comment_limit )
  => (get_ret.kind = "tuple" /\ get_ret.continue)

\* C26: scrape_comments ends by returning its tree, never by raising, for
\* every mix of comments with and without replies and with and without a
\* "more replies" button. (A lookup that fails in the page is the page's
\* error: the raise counted here is the one scrape_comments makes itself,
\* on the value of get.)
C26_ReturnsNeverRaises == cs_pc = "raised" => get_ret.kind # "None"

\* get has signalled that the limit is reached.
StoppedOnLimit == get_ret.kind = "tuple" /\ ~get_ret.continue

\* C27: when scrape_comments returns without the limit being reached, the
\* keys of the tree it returns are the thingids of the depth-0 nodes the page
\* rendered, each once, in document order.
C27_EveryTopLevelCommentCollected ==
  (cs_pc = "returned" /\ tree_present /\ ~StoppedOnLimit) =>
     all_comments = TopLevelKeys(comment_nodes, << >>)

C27_Witness ==
  /\ cs_pc = "returned"
  /\ tree_present
  /\ ~StoppedOnLimit
  /\ comment_ids # {}
  /\ Len(comment_nodes) = 3
  /\ comment_nodes[2].depth = 1
  /\ Len(all_comments) = 2

----------------------------------------------------------------------------
\* Sessions and threads (checked under Spec)

\* The pool threads that are in scrape_post_tag(post): post is a node of
\* the page of self.driver, and get_attribute on it is a command to that
\* session.
OnTopLevelSession == {i \in 1..Len(tasks) : tasks[i].pc = "tag"}

\* C28: no worker thread reads from the top-level session or from a node
\* that belongs to it, so that session is never used by two threads at once.
C28_WorkersUseOnlyOwnSession == OnTopLevelSession = {}

----------------------------------------------------------------------------
\* Further properties of the retry wrapper (checked under SpecRetry)

\* C29: the wrapper sleeps only between invocations: when all retries
\* invocations have failed it has slept retries-1 times, and it raises
\* without a sleep after the last failure.
C29_SleepsOnlyBetweenAttempts ==
  (r_pc = "raised" /\ retries >= 1) => r_sleeps = retries - 1

\* C30: the exception the wrapper raises when every invocation failed carries
\* the error of the last invocation.
C30_RaisesLastError ==
  (r_pc = "raised" /\ retries >= 1) => r_out.val = r_log[Len(r_log)].val

----------------------------------------------------------------------------
\* Runs on one instance (checked under SpecCommentRuns)

\* C31: the seen set is per run: every call of scrape_comments starts with
\* an empty comment_ids and an empty all_comments, whatever the calls before
\* it on the same CommentScraper have visited.
C31_SeenSetIsPerRun ==
  cs_pc = "start" => (comment_ids = {} /\ all_comments = << >>)

----------------------------------------------------------------------------
\* The two counts of get_posts (checked under Spec)

\* C32: when a batch has joined, post_ids holds as many ids as scraped_posts
\* holds results, so the quota test on len(post_ids) and the slice start
\* len(scraped_posts) count the same dispatched nodes.
C32_SeenCountEqualsResultCount ==
  pc = "check" => Cardinality(post_ids) = Len(scraped_posts)

----------------------------------------------------------------------------
\* The result of MediaScraper.download_media (checked under SpecMedia)

\* The log entries of the assets whose fetch and save both succeeded.
SavedAssets == SelectSeq(m_log, LAMBDA e : e.what = "saved")

----------------------------------------------------------------------------
\* Rejected limits (checked under Spec)

\* get_posts was called with a negative limit or a negative comment_limit.
NegativeLimit == (limit # << >> /\ limit[1] < 0) \/ comment_limit < 0

\* C34: with a negative limit or comment_limit get_posts returns the empty
\* list and does nothing else: it never reaches the pool, the wait for the
\* nodes, a dispatch or a scroll, and the page it was given stays as it was.
C34_RejectedLimitReturnsEmpty ==
  /\ [](NegativeLimit =>
          /\ pc \notin {"wait", "join", "check", "shutdown"}
          /\ post_ids = {}
          /\ tasks = << >>
          /\ dispatched = << >>
          /\ scraped_posts = << >>
          /\ ended \in {"running", "invalid"}
          /\ pc = "returned" => ended = "invalid")
  /\ [][NegativeLimit => (feed' = feed /\ ~Scrolls)]_vars

\* C34, witness: get_posts has returned on a negative comment_limit, with an
\* acceptable limit and a feed that renders nodes.
C34_Witness ==
  /\ pc = "returned"
  /\ ended = "invalid"
  /\ comment_limit < 0
  /\ limit = <<1>>
  /\ feed # << >>
  /\ scraped_posts = << >>

====
